---------------------------- MODULE Spec2Model ----------------------------
(***************************************************************************)
(* Model of scripts/html_reference.py: the reference harness that wraps    *)
(* an HTML parsing library and formats its tokens and trees.               *)
(*                                                                         *)
(* A Python str is a sequence of code points (naturals).  A Python value   *)
(* that may be None is a record [t |-> "None"] or [t |-> "str", v |-> s].  *)
(* A dict is the sequence of its <<key, value>> items in insertion order,  *)
(* with pairwise different keys.                                           *)
(***************************************************************************)
EXTENDS Integers, Sequences, FiniteSets, TLC

VARIABLES op, arg, ret

vars == <<op, arg, ret>>

(***************************************************************************)
(* Bounds of the model.                                                    *)
(***************************************************************************)
MaxLen == 2
MaxAttrs == 2
MaxNodes == 3
RecursionLimit == 2

(***************************************************************************)
(* Code points the source names.                                           *)
(***************************************************************************)
BACKSLASH == 92
DQUOTE == 34
NEWLINE == 10
TAB == 9
CR == 13
SPACE_LIMIT == 32
DEL == 127
C1_FIRST == 128
C1_LAST == 159

(***************************************************************************)
(* Generic helpers on sequences.                                           *)
(***************************************************************************)
RECURSIVE SeqsUpTo(_, _)
SeqsUpTo(S, n) ==
    IF n = 0 THEN {<<>>}
    ELSE LET shorter == SeqsUpTo(S, n - 1)
         IN  shorter \cup {Append(s, c) : s \in {x \in shorter : Len(x) = n - 1}, c \in S}

RECURSIVE Flatten(_)
Flatten(ss) ==
    IF ss = <<>> THEN <<>> ELSE Head(ss) \o Flatten(Tail(ss))

\* sep.join(parts)
RECURSIVE Join(_, _)
Join(sep, parts) ==
    IF parts = <<>> THEN <<>>
    ELSE IF Len(parts) = 1 THEN parts[1]
    ELSE parts[1] \o sep \o Join(sep, Tail(parts))

(***************************************************************************)
(* escape_for_moonbit                                                      *)
(***************************************************************************)
\* one lower-case hexadecimal digit, as a code point
HexDigit(n) == IF n < 10 THEN 48 + n ELSE 87 + n

RECURSIVE HexDigits(_)
HexDigits(n) ==
    IF n < 16 THEN <<HexDigit(n)>>
    ELSE Append(HexDigits(n \div 16), HexDigit(n % 16))

\* Hex02 with a fault: format(code, "x"), without the padding
HexNoPad(code) == HexDigits(code)

\* format(code, "02x")
Hex02(code) ==
    LET d == HexDigits(code)
    IN  IF Len(d) < 2 THEN <<48>> \o d ELSE d

\* f'\\u{{{code:02x}}}' : backslash, u, {, digits, }
UEscape(code) == <<BACKSLASH, 117, 123>> \o Hex02(code) \o <<125>>

\* EscapeChar with a fault: a backslash is copied, not doubled
EscapeCharNoBackslash(c) ==
    IF c = BACKSLASH THEN <<BACKSLASH>>
    ELSE IF c = DQUOTE THEN <<BACKSLASH, DQUOTE>>
    ELSE IF c = NEWLINE THEN <<BACKSLASH, 110>>
    ELSE IF c = TAB THEN <<BACKSLASH, 116>>
    ELSE IF c = CR THEN <<BACKSLASH, 114>>
    ELSE IF c < SPACE_LIMIT THEN UEscape(c)
    ELSE IF c = DEL THEN UEscape(c)
    ELSE IF C1_FIRST <= c /\ c <= C1_LAST THEN UEscape(c)
    ELSE <<c>>

\* the body of the loop of escape_for_moonbit: what one character appends
EscapeChar(c) ==
    IF c = BACKSLASH THEN <<BACKSLASH, BACKSLASH>>
    ELSE IF c = DQUOTE THEN <<BACKSLASH, DQUOTE>>
    ELSE IF c = NEWLINE THEN <<BACKSLASH, 110>>
    ELSE IF c = TAB THEN <<BACKSLASH, 116>>
    ELSE IF c = CR THEN <<BACKSLASH, 114>>
    ELSE IF c < SPACE_LIMIT THEN UEscape(c)
    ELSE IF c = DEL THEN <<BACKSLASH, 117, 123, 55, 102, 125>>
    ELSE IF C1_FIRST <= c /\ c <= C1_LAST THEN UEscape(c)
    ELSE <<c>>

\* result = []; for c in s: result.append(...); return ''.join(result)
escape_for_moonbit(s) ==
    Flatten([i \in 1..Len(s) |-> EscapeChar(s[i])])

(***************************************************************************)
(* Python values.                                                          *)
(***************************************************************************)
PyNone == [t |-> "None"]
PyStr(s) == [t |-> "str", v |-> s]

\* the truth value Python gives a str or None in `if x`
Truthy(x) == x.t = "str" /\ x.v # <<>>

\* dict.get(key, default)
Get(d, key, default) == IF key \in DOMAIN d THEN d[key] ELSE default

\* BoolLower with a fault: str(b), not lowered
\* 'True', 'False'
BoolStr(b) ==
    IF b THEN <<84, 114, 117, 101>> ELSE <<70, 97, 108, 115, 101>>

\* str(b).lower() of a bool
\* 'true', 'false'
BoolLower(b) ==
    IF b THEN <<116, 114, 117, 101>> ELSE <<102, 97, 108, 115, 101>>

(***************************************************************************)
(* format_token_for_moonbit                                                *)
(***************************************************************************)
\* f'{{name: "{escape_for_moonbit(k)}", value: "{escape_for_moonbit(v)}"}}'
\* '{name: "' k '", value: "' v '"}'
AttrEntry(item) ==
    <<123, 110, 97, 109, 101, 58, 32, 34>> \o escape_for_moonbit(item[1])
    \o <<34, 44, 32, 118, 97, 108, 117, 101, 58, 32, 34>> \o escape_for_moonbit(item[2])
    \o <<34, 125>>

\* ', '.join(... for k, v in attrs.items())
AttrsStr(attrs) ==
    Join(<<44, 32>>, [i \in 1..Len(attrs) |-> AttrEntry(attrs[i])])

\* 'StartTag(name="' name '", attrs=[' attrs_str '], self_closing=' flag ')'
FormatStartTag(token) ==
    LET name == escape_for_moonbit(Get(token, "name", <<>>))
        attrs == Get(token, "data", <<>>)
        self_closing == Get(token, "selfClosing", FALSE)
    IN  <<83, 116, 97, 114, 116, 84, 97, 103, 40, 110, 97, 109, 101, 61, 34>> \o name
        \o <<34, 44, 32, 97, 116, 116, 114, 115, 61, 91>> \o AttrsStr(attrs)
        \o <<93, 44, 32, 115, 101, 108, 102, 95, 99, 108, 111, 115, 105, 110, 103, 61>>
        \o BoolLower(self_closing) \o <<41>>

\* 'EndTag(name="' name '")'
FormatEndTag(token) ==
    <<69, 110, 100, 84, 97, 103, 40, 110, 97, 109, 101, 61, 34>>
    \o escape_for_moonbit(Get(token, "name", <<>>)) \o <<34, 41>>

\* f"Character('{escape_for_moonbit(c)}')"
\* "Character('" c "')"
CharEntry(c) ==
    <<67, 104, 97, 114, 97, 99, 116, 101, 114, 40, 39>> \o escape_for_moonbit(<<c>>)
    \o <<39, 41>>

\* ', '.join(chars)
FormatCharacters(token) ==
    LET data == Get(token, "data", <<>>)
    IN  Join(<<44, 32>>, [i \in 1..Len(data) |-> CharEntry(data[i])])

\* 'Comment("' data '")'
FormatComment(token) ==
    <<67, 111, 109, 109, 101, 110, 116, 40, 34>>
    \o escape_for_moonbit(Get(token, "data", <<>>)) \o <<34, 41>>

\* f'Some("{escape_for_moonbit(x)}")' if x else 'None'
OptStr(x) ==
    IF Truthy(x) THEN <<83, 111, 109, 101, 40, 34>> \o escape_for_moonbit(x.v) \o <<34, 41>>
    ELSE <<78, 111, 110, 101>>

\* 'DOCTYPE(name=' n ', public_id=' p ', system_id=' s ', force_quirks=false)'
FormatDoctype(token) ==
    <<68, 79, 67, 84, 89, 80, 69, 40, 110, 97, 109, 101, 61>>
    \o OptStr(Get(token, "name", PyNone))
    \o <<44, 32, 112, 117, 98, 108, 105, 99, 95, 105, 100, 61>>
    \o OptStr(Get(token, "publicId", PyNone))
    \o <<44, 32, 115, 121, 115, 116, 101, 109, 95, 105, 100, 61>>
    \o OptStr(Get(token, "systemId", PyNone))
    \o <<44, 32, 102, 111, 114, 99, 101, 95, 113, 117, 105, 114, 107, 115, 61,
         102, 97, 108, 115, 101, 41>>

format_token_for_moonbit(token) ==
    LET token_type == Get(token, "type", "None")
    IN  IF token_type = "StartTag" THEN PyStr(FormatStartTag(token))
        ELSE IF token_type = "EndTag" THEN PyStr(FormatEndTag(token))
        ELSE IF token_type = "Characters" \/ token_type = "SpaceCharacters"
             THEN PyStr(FormatCharacters(token))
        ELSE IF token_type = "Comment" THEN PyStr(FormatComment(token))
        ELSE IF token_type = "Doctype" THEN PyStr(FormatDoctype(token))
        ELSE IF token_type = "ParseError" THEN PyNone
        ELSE PyNone

(***************************************************************************)
(* The wrapped tokenizer.  Its code is not part of the script: it is       *)
(* modelled from the specification of the tokenizer (4.1).  An input is a  *)
(* start tag as written: a name and the attributes in source order,        *)
(* duplicates included.                                                    *)
(***************************************************************************)
\* the items of raw whose name no earlier item has: the first occurrence wins
RECURSIVE FirstOccurrences(_, _)
FirstOccurrences(raw, seen) ==
    IF raw = <<>> THEN <<>>
    ELSE IF Head(raw)[1] \in seen THEN FirstOccurrences(Tail(raw), seen)
    ELSE <<Head(raw)>> \o FirstOccurrences(Tail(raw), seen \cup {Head(raw)[1]})

\* one ParseError per attribute whose name an earlier attribute has
\* 'duplicate-attribute'
DuplicateErrors(raw) ==
    [i \in 1..(Len(raw) - Len(FirstOccurrences(raw, {}))) |->
        [type |-> "ParseError",
         data |-> <<100, 117, 112, 108, 105, 99, 97, 116, 101, 45,
                    97, 116, 116, 114, 105, 98, 117, 116, 101>>]]

\* the tokens of one start tag, ended by the EndOfFile token
HTMLTokenizer(html) ==
    DuplicateErrors(html.attrs)
    \o <<[type |-> "StartTag", name |-> html.name,
          data |-> FirstOccurrences(html.attrs, {}), selfClosing |-> html.selfClosing]>>
    \o <<[type |-> "EndOfFile"]>>

(***************************************************************************)
(* tokenize_html and parse_html_to_tree.  The body of a try block either   *)
(* completes with a value or raises an exception with a message; a call    *)
(* either returns a value or lets an exception escape.                     *)
(***************************************************************************)
Completed(v) == [raised |-> FALSE, value |-> v]
Raised(cls, msg) == [raised |-> TRUE, cls |-> cls, msg |-> msg]

Returns(v) == [kind |-> "return", value |-> v]
Escapes(body) == [kind |-> "raise", cls |-> body.cls, msg |-> body.msg]

\* the classes of the model that `except Exception` catches
ExceptionSubclasses == {"ValueError", "RecursionError"}

\* tokens = []; for token in HTMLTokenizer(html_content): tokens.append(token)
\* fault: the exception the library raises, or None
TokenizeBody(html, fault) ==
    IF fault.t = "exc" THEN Raised(fault.cls, fault.msg) ELSE Completed(HTMLTokenizer(html))

\* try: ... return True, tokens / except Exception as e: return False, str(e)
tokenize_html(html, fault) ==
    LET body == TokenizeBody(html, fault)
    IN  IF body.raised
        THEN IF body.cls \in ExceptionSubclasses
             THEN Returns(<<FALSE, body.msg>>) ELSE Escapes(body)
        ELSE Returns(<<TRUE, body.value>>)

(***************************************************************************)
(* The tree dump: element_to_str.  An element is a record                  *)
(* [tag, attrib, text, tail, children].                                    *)
(***************************************************************************)
\* s.split(sep) for a one-character separator: the pieces between the separators
RECURSIVE Split(_, _)
Split(s, sep) ==
    IF \A i \in 1..Len(s) : s[i] # sep THEN <<s>>
    ELSE LET k == CHOOSE i \in 1..Len(s) : s[i] = sep /\ \A j \in 1..(i - 1) : s[j] # sep
         IN  <<SubSeq(s, 1, k - 1)>> \o Split(SubSeq(s, k + 1, Len(s)), sep)

\* a < b for two str: by code point, a proper prefix first
RECURSIVE StrLess(_, _)
StrLess(a, b) ==
    IF b = <<>> THEN FALSE
    ELSE IF a = <<>> THEN TRUE
    ELSE IF Head(a) # Head(b) THEN Head(a) < Head(b)
    ELSE StrLess(Tail(a), Tail(b))

\* a < b for two (key, value) tuples
ItemLess(a, b) == StrLess(a[1], b[1]) \/ (a[1] = b[1] /\ StrLess(a[2], b[2]))

\* sorted(elem.attrib.items())
RECURSIVE Sorted(_)
Sorted(items) ==
    IF items = <<>> THEN <<>>
    ELSE LET m == CHOOSE i \in 1..Len(items) :
                      \A j \in 1..Len(items) : j = i \/ ItemLess(items[i], items[j])
         IN  <<items[m]>>
             \o Sorted([j \in 1..(Len(items) - 1) |-> IF j < m THEN items[j] ELSE items[j + 1]])

\* "| " * indent
RECURSIVE Prefix(_)
Prefix(indent) == IF indent = 0 THEN <<>> ELSE <<124, 32>> \o Prefix(indent - 1)

\* tag = elem.tag if isinstance(elem.tag, str) else str(elem.tag)
\* if '}' in tag: tag = tag.split('}')[1]
TagName(elem) ==
    LET tag == IF elem.tag.t = "str" THEN elem.tag.v ELSE elem.tag.repr
    IN  IF \E i \in 1..Len(tag) : tag[i] = 125 THEN Split(tag, 125)[2] ELSE tag

\* f"{prefix}<{tag}>"
TagLine(elem, prefix) == prefix \o <<60>> \o TagName(elem) \o <<62>>

\* f"{prefix}  {key}=\"{value}\""
AttrLine(item, prefix) ==
    prefix \o <<32, 32>> \o item[1] \o <<61, 34>> \o item[2] \o <<34>>

\* f"{prefix}  \"{text}\""
TextLine(text, prefix) == prefix \o <<32, 32, 34>> \o text \o <<34>>

RECURSIVE element_to_str(_, _)
RECURSIVE ChildrenLines(_, _)
\* for child in elem: lines.extend(element_to_str(child, indent + 1)); the tail
ChildrenLines(children, indent) ==
    IF children = <<>> THEN <<>>
    ELSE LET child == Head(children)
         IN  element_to_str(child, indent + 1)
             \o (IF Truthy(child.tail) THEN <<TextLine(child.tail.v, Prefix(indent))>> ELSE <<>>)
             \o ChildrenLines(Tail(children), indent)

element_to_str(elem, indent) ==
    LET prefix == Prefix(indent)
        items == Sorted(elem.attrib)
    IN  <<TagLine(elem, prefix)>>
        \o [i \in 1..Len(items) |-> AttrLine(items[i], prefix)]
        \o (IF Truthy(elem.text) THEN <<TextLine(elem.text.v, prefix)>> ELSE <<>>)
        \o ChildrenLines(elem.children, indent)

\* the nesting of element_to_str calls that elem needs
RECURSIVE Height(_)
Height(elem) ==
    LET hs == {Height(elem.children[i]) : i \in 1..Len(elem.children)}
    IN  1 + (IF hs = {} THEN 0 ELSE CHOOSE h \in hs : \A g \in hs : g <= h)

\* doc = parser.parse(html_content); result = element_to_str(doc); '\n'.join(result)
\* doc: the tree the library builds; fault: the exception the library raises, or
\* None.  The interpreter raises RecursionError when the calls of element_to_str
\* nest deeper than its recursion limit.
\* 'maximum recursion depth exceeded'
ParseBody(doc, fault) ==
    IF fault.t = "exc" THEN Raised(fault.cls, fault.msg)
    ELSE IF Height(doc) > RecursionLimit
         THEN Raised("RecursionError",
                     <<109, 97, 120, 105, 109, 117, 109, 32, 114, 101, 99, 117, 114, 115,
                       105, 111, 110, 32, 100, 101, 112, 116, 104, 32, 101, 120, 99, 101,
                       101, 100, 101, 100>>)
    ELSE Completed(Join(<<10>>, element_to_str(doc, 0)))

\* parse_html_to_tree with a fault: the try block ends after parser.parse, and
\* the exception of the serialization escapes
parse_html_to_tree_try_parse_only(doc, fault) ==
    LET body == ParseBody(doc, fault)
    IN  IF body.raised
        THEN IF fault.t = "exc" /\ body.cls \in ExceptionSubclasses
             THEN Returns(<<FALSE, body.msg>>) ELSE Escapes(body)
        ELSE Returns(<<TRUE, body.value>>)

\* try: ... return True, '\n'.join(result) / except Exception as e: return False, str(e)
parse_html_to_tree(doc, fault) ==
    LET body == ParseBody(doc, fault)
    IN  IF body.raised
        THEN IF body.cls \in ExceptionSubclasses
             THEN Returns(<<FALSE, body.msg>>) ELSE Escapes(body)
        ELSE Returns(<<TRUE, body.value>>)

(***************************************************************************)
(* Inputs.                                                                 *)
(***************************************************************************)
\* NUL, TAB, LF, CR, US, space, ", ', \, n, DEL, U+0080, U+009F, U+00A0, U+03BB
Alphabet == {0, 9, 10, 13, 31, 32, 34, 39, 92, 110, 127, 128, 159, 160, 955}

Strings == SeqsUpTo(Alphabet, MaxLen)

\* the inputs of escape_for_moonbit: the strings, and the texts that spell an
\* escape: '\u{00}', '\u{7f}', '\u{9f}'
EscapeInputs ==
    Strings \cup {<<92, 117, 123, 48, 48, 125>>, <<92, 117, 123, 55, 102, 125>>,
                  <<92, 117, 123, 57, 102, 125>>}

\* tag and attribute names: 'a', 'x', a newline, and backslash n
Names == {<<97>>, <<120>>, <<10>>, <<92, 110>>}

\* attribute values: '1', '2', and a double quote
Values == {<<49>>, <<50>>, <<34>>}

Keys(items) == {items[i][1] : i \in 1..Len(items)}

\* the dicts of at most MaxAttrs items: item sequences with different keys
Dicts ==
    {d \in SeqsUpTo(Names \X Values, MaxAttrs) : Cardinality(Keys(d)) = Len(d)}

\* what a Doctype token may carry for its name and ids: None, '' or 'html'
OptStrings == {PyNone, PyStr(<<>>), PyStr(<<104, 116, 109, 108>>)}

StartTagTokens ==
    [type : {"StartTag"}, name : Names, data : Dicts, selfClosing : BOOLEAN]
    \cup [type : {"StartTag"}, name : Names, data : Dicts]

EndTagTokens == [type : {"EndTag"}, name : Names]

CharacterTokens == [type : {"Characters", "SpaceCharacters"}, data : Strings]

CommentTokens == [type : {"Comment"}, data : Strings]

\* correct is the library's flag of a Doctype token: force-quirks is its negation
DoctypeTokens ==
    [type : {"Doctype"}, name : OptStrings, publicId : OptStrings,
     systemId : OptStrings, correct : BOOLEAN]
    \cup [type : {"Doctype"}, name : OptStrings, correct : BOOLEAN]

OtherTokens ==
    [type : {"ParseError"}, data : {<<101, 114, 114>>}]
    \cup [type : {"EndOfFile", "EmptyTag"}]
    \cup {[data |-> <<>>]}

Tokens ==
    StartTagTokens \cup EndTagTokens \cup CharacterTokens \cup CommentTokens
    \cup DoctypeTokens \cup OtherTokens


\* a start tag as written: its attributes in source order, duplicates included
RawTags ==
    [name : {<<97>>}, attrs : SeqsUpTo({<<120>>, <<121>>} \X {<<49>>, <<50>>}, MaxAttrs),
     selfClosing : BOOLEAN]

\* what the library raises: nothing, or ValueError('err')
Faults == {PyNone, [t |-> "exc", cls |-> "ValueError", msg |-> <<101, 114, 114>>]}

\* ElementTree.Comment, the tag of a comment node, and its str()
\* '<function Comment>'
CommentTag ==
    [t |-> "function",
     repr |-> <<60, 102, 117, 110, 99, 116, 105, 111, 110, 32, 67, 111, 109, 109, 101,
                110, 116, 62>>]

\* tag, attrib, text and tail of the nodes of the trees:
\*   <p>, nothing else
\*   <p b="2" a="1"> with text 'x' and tail 'y'
\*   <{n}g> with text '' and tail '"'
\*   <a}b}c> with text None and tail a newline
\*   <p a="&quot;"> with text newline, backslash, and tail None
\*   a comment with text 'x'
Labels ==
    { [tag |-> PyStr(<<112>>), attrib |-> <<>>, text |-> PyNone, tail |-> PyNone],
      [tag |-> PyStr(<<112>>), attrib |-> <<<<<<98>>, <<50>>>>, <<<<97>>, <<49>>>>>>,
       text |-> PyStr(<<120>>), tail |-> PyStr(<<121>>)],
      [tag |-> PyStr(<<123, 110, 125, 103>>), attrib |-> <<>>,
       text |-> PyStr(<<>>), tail |-> PyStr(<<34>>)],
      [tag |-> PyStr(<<97, 125, 98, 125, 99>>), attrib |-> <<>>,
       text |-> PyNone, tail |-> PyStr(<<10>>)],
      [tag |-> PyStr(<<112>>), attrib |-> <<<<<<97>>, <<34>>>>>>,
       text |-> PyStr(<<10, 92>>), tail |-> PyNone],
      [tag |-> CommentTag, attrib |-> <<>>, text |-> PyStr(<<120>>), tail |-> PyNone] }

RECURSIVE TreesOfSize(_)
RECURSIVE ForestsOfSize(_)
\* the sequences of trees with m nodes in all
ForestsOfSize(m) ==
    IF m = 0 THEN {<<>>}
    ELSE UNION {{<<t>> \o f : t \in TreesOfSize(k), f \in ForestsOfSize(m - k)} : k \in 1..m}

\* the trees with n nodes
TreesOfSize(n) ==
    {[tag |-> l.tag, attrib |-> l.attrib, text |-> l.text, tail |-> l.tail, children |-> f] :
        l \in Labels, f \in ForestsOfSize(n - 1)}

Trees == UNION {TreesOfSize(n) : n \in 1..MaxNodes}

(***************************************************************************)
(* The operations: the harness is idle, makes one call, and takes the      *)
(* result.                                                                 *)
(***************************************************************************)
Init ==
    /\ op = "idle"
    /\ arg = <<>>
    /\ ret = <<>>

CallEscape ==
    /\ op = "idle"
    /\ \E s \in EscapeInputs :
        /\ op' = "escape_for_moonbit"
        /\ arg' = s
        /\ ret' = escape_for_moonbit(s)

CallFormatToken ==
    /\ op = "idle"
    /\ \E token \in Tokens :
        /\ op' = "format_token_for_moonbit"
        /\ arg' = token
        /\ ret' = format_token_for_moonbit(token)

CallTokenize ==
    /\ op = "idle"
    /\ \E html \in RawTags, fault \in Faults :
        /\ op' = "tokenize_html"
        /\ arg' = [html |-> html, fault |-> fault]
        /\ ret' = tokenize_html(html, fault)

CallParse ==
    /\ op = "idle"
    /\ \E doc \in Trees, fault \in Faults :
        /\ op' = "parse_html_to_tree"
        /\ arg' = [doc |-> doc, fault |-> fault]
        /\ ret' = parse_html_to_tree(doc, fault)

\* the caller has the result and is ready for the next call
Return ==
    /\ op # "idle"
    /\ op' = "idle"
    /\ arg' = <<>>
    /\ ret' = <<>>

Next == CallEscape \/ CallFormatToken \/ CallTokenize \/ CallParse \/ Return

Spec == Init /\ [][Next]_vars

(***************************************************************************)
(* What the claims are stated with.                                        *)
(***************************************************************************)
\* the digits '0123456789abcdef'
LowerHexDigits ==
    <<48, 49, 50, 51, 52, 53, 54, 55, 56, 57, 97, 98, 99, 100, 101, 102>>

\* a code point below 256 in two lower-case hexadecimal digits
TwoHex(code) ==
    <<LowerHexDigits[(code \div 16) + 1], LowerHexDigits[(code % 16) + 1]>>

IsControl(c) == c < 32 \/ c = 127 \/ (128 <= c /\ c <= 159)

\* the image of one character that C1 names
Image(c) ==
    CASE c = 92 -> <<92, 92>>
      [] c = 34 -> <<92, 34>>
      [] c = 10 -> <<92, 110>>
      [] c = 9 -> <<92, 116>>
      [] c = 13 -> <<92, 114>>
      [] IsControl(c) /\ c \notin {9, 10, 13} -> <<92, 117, 123>> \o TwoHex(c) \o <<125>>
      [] OTHER -> <<c>>

RECURSIVE Images(_)
Images(s) == IF s = <<>> THEN <<>> ELSE Image(Head(s)) \o Images(Tail(s))

\* the number of backslashes that end just before position i of s
RECURSIVE BackslashRun(_, _)
BackslashRun(s, i) ==
    IF i > 1 /\ s[i - 1] = 92 THEN 1 + BackslashRun(s, i - 1) ELSE 0

\* position i of s is preceded by a backslash that is not itself escaped
IsEscaped(s, i) == BackslashRun(s, i) % 2 = 1

\* the number of places where pat occurs in s
Occurrences(pat, s) ==
    Cardinality({i \in 1..(Len(s) - Len(pat) + 1) : SubSeq(s, i, i + Len(pat) - 1) = pat})

EscapeCalled == op = "escape_for_moonbit"
FormatCalled(type) ==
    op = "format_token_for_moonbit" /\ "type" \in DOMAIN arg /\ arg.type = type

(***************************************************************************)
(* C1: escape_for_moonbit(s) is the concatenation, in order, of the images *)
(* of the characters of s: the short escapes of backslash, double quote,   *)
(* newline, tab and carriage return, \u{xx} in lower-case hexadecimal of   *)
(* at least two digits for the other control characters, the character     *)
(* itself otherwise.  So the output holds no raw control character and no  *)
(* double quote without an escaping backslash before it.                   *)
(***************************************************************************)
C1_EscapeImages ==
    EscapeCalled =>
        /\ ret = Images(arg)
        /\ \A i \in 1..Len(ret) : ~IsControl(ret[i])
        /\ \A i \in 1..Len(ret) : ret[i] = 34 => IsEscaped(ret, i)

\* NUL and a double quote were escaped to \u{00}\"
C1_Witness ==
    /\ EscapeCalled
    /\ arg = <<0, 34>>
    /\ ret = <<92, 117, 123, 48, 48, 125, 92, 34>>

(***************************************************************************)
(* C10: escape_for_moonbit is injective, and the escape of a concatenation *)
(* is the concatenation of the escapes: no other input has the output of   *)
(* this call, and the output splits at every place the input splits.       *)
(***************************************************************************)
C10_Injective ==
    EscapeCalled =>
        /\ \A t \in EscapeInputs : escape_for_moonbit(t) = ret => t = arg
        /\ \A k \in 0..Len(arg) :
              ret = escape_for_moonbit(SubSeq(arg, 1, k))
                    \o escape_for_moonbit(SubSeq(arg, k + 1, Len(arg)))

\* a literal backslash followed by n was escaped, and is not the escape of a newline
C10_Witness ==
    /\ EscapeCalled
    /\ arg = <<92, 110>>
    /\ ret = <<92, 92, 110>>
    /\ ret # escape_for_moonbit(<<10>>)

(***************************************************************************)
(* C5: a StartTag token gives one entry with the escaped tag name, every   *)
(* attribute as an escaped {name, value} pair in the token's order, and    *)
(* the self-closing flag as true or false, false when the token has no     *)
(* flag; an EndTag token gives one entry with the escaped tag name.        *)
(***************************************************************************)
\* '{name: "' k '", value: "' v '"}', the entries separated by ', '
RECURSIVE PairEntries(_)
PairEntries(items) ==
    IF items = <<>> THEN <<>>
    ELSE <<123, 110, 97, 109, 101, 58, 32, 34>> \o Images(Head(items)[1])
         \o <<34, 44, 32, 118, 97, 108, 117, 101, 58, 32, 34>> \o Images(Head(items)[2])
         \o <<34, 125>>
         \o (IF Tail(items) = <<>> THEN <<>> ELSE <<44, 32>> \o PairEntries(Tail(items)))

C5_TagEntries ==
    /\ FormatCalled("StartTag") =>
          ret = PyStr(<<83, 116, 97, 114, 116, 84, 97, 103, 40, 110, 97, 109, 101, 61, 34>>
                      \o Images(arg.name)
                      \o <<34, 44, 32, 97, 116, 116, 114, 115, 61, 91>>
                      \o PairEntries(arg.data)
                      \o <<93, 44, 32, 115, 101, 108, 102, 95, 99, 108, 111, 115, 105, 110,
                           103, 61>>
                      \o (IF "selfClosing" \in DOMAIN arg /\ arg.selfClosing
                          THEN <<116, 114, 117, 101>> ELSE <<102, 97, 108, 115, 101>>)
                      \o <<41>>)
    /\ FormatCalled("EndTag") =>
          ret = PyStr(<<69, 110, 100, 84, 97, 103, 40, 110, 97, 109, 101, 61, 34>>
                      \o Images(arg.name) \o <<34, 41>>)

\* <a x="1" a="&quot;"/> was dumped as
\* 'StartTag(name="a", attrs=[{name: "x", value: "1"}, {name: "a", value: "\""}], self_closing=true)'
C5_Witness ==
    /\ FormatCalled("StartTag")
    /\ arg.name = <<97>>
    /\ arg.data = <<<<<<120>>, <<49>>>>, <<<<97>>, <<34>>>>>>
    /\ "selfClosing" \in DOMAIN arg /\ arg.selfClosing
    /\ ret = PyStr(<<83, 116, 97, 114, 116, 84, 97, 103, 40, 110, 97, 109, 101, 61, 34, 97,
                     34, 44, 32, 97, 116, 116, 114, 115, 61, 91, 123, 110, 97, 109, 101, 58,
                     32, 34, 120, 34, 44, 32, 118, 97, 108, 117, 101, 58, 32, 34, 49, 34,
                     125, 44, 32, 123, 110, 97, 109, 101, 58, 32, 34, 97, 34, 44, 32, 118,
                     97, 108, 117, 101, 58, 32, 34, 92, 34, 34, 125, 93, 44, 32, 115, 101,
                     108, 102, 95, 99, 108, 111, 115, 105, 110, 103, 61, 116, 114, 117, 101,
                     41>>)

(***************************************************************************)
(* C6: the dump of a Doctype token shows name, public id and system id as  *)
(* Some(<escaped value>) exactly when the token carries the field, the     *)
(* empty string included, and None exactly when it is absent, and the      *)
(* force-quirks flag with the value the token carries.                     *)
(***************************************************************************)
\* 'Some("' v '")' for a carried str, 'None' for None or no key
CarriedField(token, key) ==
    IF key \in DOMAIN token /\ token[key].t = "str"
    THEN <<83, 111, 109, 101, 40, 34>> \o Images(token[key].v) \o <<34, 41>>
    ELSE <<78, 111, 110, 101>>

C6_DoctypeFields ==
    FormatCalled("Doctype") =>
        ret = PyStr(<<68, 79, 67, 84, 89, 80, 69, 40, 110, 97, 109, 101, 61>>
                    \o CarriedField(arg, "name")
                    \o <<44, 32, 112, 117, 98, 108, 105, 99, 95, 105, 100, 61>>
                    \o CarriedField(arg, "publicId")
                    \o <<44, 32, 115, 121, 115, 116, 101, 109, 95, 105, 100, 61>>
                    \o CarriedField(arg, "systemId")
                    \o <<44, 32, 102, 111, 114, 99, 101, 95, 113, 117, 105, 114, 107, 115, 61>>
                    \o (IF arg.correct THEN <<102, 97, 108, 115, 101>> ELSE <<116, 114, 117, 101>>)
                    \o <<41>>)

(***************************************************************************)
(* C7: the token sequence of a tokenization ends with an EndOfFile token,  *)
(* which occurs nowhere else in it, and the token dump has an entry for    *)
(* the EndOfFile token.                                                    *)
(***************************************************************************)
C7_EndOfFile ==
    /\ (op = "tokenize_html" /\ ret.kind = "return" /\ ret.value[1]) =>
          LET tokens == ret.value[2]
          IN  /\ tokens # <<>>
              /\ \A i \in 1..Len(tokens) : (tokens[i].type = "EndOfFile") <=> (i = Len(tokens))
    /\ FormatCalled("EndOfFile") => ret # PyNone

(***************************************************************************)
(* C9: a Characters or SpaceCharacters token with data d gives len(d)      *)
(* entries Character('<escaped code point>') joined by ', ', one per code  *)
(* point in order, each delimiting its code point: no quote that is not    *)
(* escaped stands between the two quotes of an entry.  A ParseError token  *)
(* or a token of an unrecognised type gives None.                          *)
(***************************************************************************)
RECURSIVE CharacterEntries(_)
CharacterEntries(d) ==
    IF d = <<>> THEN <<>>
    ELSE <<67, 104, 97, 114, 97, 99, 116, 101, 114, 40, 39>> \o Images(<<Head(d)>>)
         \o <<39, 41>>
         \o (IF Tail(d) = <<>> THEN <<>> ELSE <<44, 32>> \o CharacterEntries(Tail(d)))

\* between the quotes of the entry of c, every single quote is escaped
Delimited(c) ==
    LET entry == CharEntry(c)
    IN  \A i \in 12..(Len(entry) - 2) : entry[i] = 39 => IsEscaped(entry, i)

RecognisedTypes ==
    {"StartTag", "EndTag", "Characters", "SpaceCharacters", "Comment", "Doctype"}

C9_CharacterEntries ==
    /\ (FormatCalled("Characters") \/ FormatCalled("SpaceCharacters")) =>
          /\ ret = PyStr(CharacterEntries(arg.data))
          /\ \A i \in 1..Len(arg.data) : Delimited(arg.data[i])
    /\ (op = "format_token_for_moonbit"
        /\ ("type" \notin DOMAIN arg \/ arg.type \notin RecognisedTypes)) => ret = PyNone

(***************************************************************************)
(* C8: only the first of the attributes of a start tag that have one name  *)
(* is retained and each other one is reported as a parse error: no         *)
(* attribute name appears more than once in a dumped StartTag entry or in  *)
(* an element of the tree dump, and <a x="1" x="2"> gives one StartTag     *)
(* with x bound to "1" and one ParseError.                                 *)
(***************************************************************************)
TokensOfType(tokens, type) == {i \in 1..Len(tokens) : tokens[i].type = type}

\* the places of the first attribute of each name
FirstPlaces(raw) == {i \in 1..Len(raw) : \A j \in 1..(i - 1) : raw[j][1] # raw[i][1]}

\* '{name: "' k '", value: "'
NameField(k) ==
    <<123, 110, 97, 109, 101, 58, 32, 34>> \o escape_for_moonbit(k)
    \o <<34, 44, 32, 118, 97, 108, 117, 101, 58, 32, 34>>

\* line is an attribute line of an element at depth 0 for the name k: '  k="'...
IsAttrLineOf(line, k) ==
    /\ Len(line) >= Len(k) + 4
    /\ SubSeq(line, 1, Len(k) + 4) = <<32, 32>> \o k \o <<61, 34>>

LocalName(tag) ==
    IF \E i \in 1..Len(tag) : tag[i] = 125
    THEN LET k == CHOOSE i \in 1..Len(tag) : tag[i] = 125 /\ \A j \in 1..(i - 1) : tag[j] # 125
         IN  SubSeq(tag, k + 1, Len(tag))
    ELSE tag

\* the items of a dict in ascending order of the names
Ascending(items) ==
    CHOOSE s \in [1..Len(items) -> {items[i] : i \in 1..Len(items)}] :
        /\ \A i \in 1..(Len(items) - 1) : StrLess(s[i][1], s[i + 1][1])
        /\ {s[i] : i \in 1..Len(items)} = {items[i] : i \in 1..Len(items)}

\* d copies of the marker '| '
RECURSIVE Markers(_)
Markers(d) == IF d = 0 THEN <<>> ELSE <<124, 32>> \o Markers(d - 1)

\* a payload as the dump is to show it: escaped, or as it is
Payload(text, escaped) == IF escaped THEN Images(text) ELSE text

\* the lines of the element at depth d: the tag line, the attribute lines, the
\* text, and each child at depth d + 1 followed by its tail.  escaped: the text
\* payloads and attribute values are escaped; stripped: the tag is shown with its
\* namespace prefix removed, and else as element_to_str computes it
RECURSIVE Layout(_, _, _, _)
RECURSIVE ChildLayout(_, _, _, _)
ChildLayout(children, d, escaped, stripped) ==
    IF children = <<>> THEN <<>>
    ELSE Layout(Head(children), d + 1, escaped, stripped)
         \o (IF Head(children).tail.t = "str" /\ Head(children).tail.v # <<>>
             THEN <<Markers(d) \o <<32, 32, 34>> \o Payload(Head(children).tail.v, escaped)
                    \o <<34>>>>
             ELSE <<>>)
         \o ChildLayout(Tail(children), d, escaped, stripped)

Layout(elem, d, escaped, stripped) ==
    LET items == Ascending(elem.attrib)
        tag == IF stripped /\ elem.tag.t = "str" THEN LocalName(elem.tag.v) ELSE TagName(elem)
    IN  <<Markers(d) \o <<60>> \o tag \o <<62>>>>
        \o [i \in 1..Len(items) |->
              Markers(d) \o <<32, 32>> \o items[i][1] \o <<61, 34>>
              \o Payload(items[i][2], escaped) \o <<34>>]
        \o (IF elem.text.t = "str" /\ elem.text.v # <<>>
            THEN <<Markers(d) \o <<32, 32, 34>> \o Payload(elem.text.v, escaped) \o <<34>>>>
            ELSE <<>>)
        \o ChildLayout(elem.children, d, escaped, stripped)

ParseSucceeded == op = "parse_html_to_tree" /\ ret.kind = "return" /\ ret.value[1]

(***************************************************************************)
(* C2: in the tree dump every text payload (text and tail) and every       *)
(* attribute value is written escaped, so that no payload puts a raw       *)
(* control character, newline, double quote or backslash in its line, and  *)
(* every line of the layout is one line of the output.                     *)
(***************************************************************************)
C2_PayloadsEscaped ==
    ParseSucceeded =>
        LET lines == Layout(arg.doc, 0, TRUE, FALSE)
        IN  /\ ret.value[2] = Join(<<10>>, lines)
            /\ Occurrences(<<10>>, ret.value[2]) = Len(lines) - 1

(***************************************************************************)
(* C3: the tree dump lays an element at depth d out as the line of d       *)
(* markers '| ' and <tag>, the namespace prefix up to '}' removed, then    *)
(* one line per attribute in ascending order of the names, then the text   *)
(* if it is not empty, then each child in document order at depth d + 1,   *)
(* followed by its tail if it is not empty; attribute, text and tail lines *)
(* carry the d markers and two spaces.                                     *)
(***************************************************************************)
C3_Layout ==
    ParseSucceeded => ret.value[2] = Join(<<10>>, Layout(arg.doc, 0, FALSE, TRUE))

(***************************************************************************)
(* C4: tokenize_html and parse_html_to_tree return a (success, result)     *)
(* pair and let no exception escape: (False, <message>) when the wrapped   *)
(* tokenizer or parser or the serialization of the tree raises, and        *)
(* (True, <token list or tree string>) when nothing raises.                *)
(***************************************************************************)
\* the library raises, or the tree is deeper than the interpreter recurses
SomethingRaises ==
    \/ arg.fault.t = "exc"
    \/ op = "parse_html_to_tree" /\ Height(arg.doc) > RecursionLimit

C4_NoExceptionEscapes ==
    op \in {"tokenize_html", "parse_html_to_tree"} =>
        /\ ret.kind = "return"
        /\ Len(ret.value) = 2
        /\ ret.value[1] = ~SomethingRaises
        /\ (SomethingRaises /\ arg.fault.t = "exc") => ret.value[2] = arg.fault.msg
        /\ SomethingRaises => ret.value[2] \in Seq(Nat)
        /\ ~SomethingRaises =>
              ret.value[2] = IF op = "tokenize_html" THEN HTMLTokenizer(arg.html)
                             ELSE Join(<<10>>, element_to_str(arg.doc, 0))

\* the library built a tree too deep for element_to_str, and the call returned
\* False with the message of the RecursionError
C4_Witness ==
    /\ op = "parse_html_to_tree"
    /\ arg.fault = PyNone
    /\ Height(arg.doc) > RecursionLimit
    /\ ret.kind = "return"
    /\ ret.value[1] = FALSE
    /\ ret.value[2] = <<109, 97, 120, 105, 109, 117, 109, 32, 114, 101, 99, 117, 114, 115,
                        105, 111, 110, 32, 100, 101, 112, 116, 104, 32, 101, 120, 99, 101,
                        101, 100, 101, 100>>

=============================================================================
